---- MODULE Spec2Model ----
(***************************************************************************)
(* State-machine model of src/src/main.rs: a Discord soundboard bot.  Chat *)
(* commands (spawned per message by the framework) and one console loop    *)
(* act on the voice manager's session table (guild -> Arc<Mutex<Call>>)    *)
(* and on the Handler's shared state (Arc<Mutex<HandlerState>>).           *)
(*                                                                         *)
(* Characters are modelled as short ASCII tokens: "a" "A" are the plain    *)
(* letters, "a'" / "A'" stand for a-acute / A-acute, "u:" / "U:" for       *)
(* u-diaeresis, " " is the space character.                                *)
(***************************************************************************)
EXTENDS Integers, Sequences, FiniteSets, TLC

\* ------------------------------------------------------------------ bounds
NumTasks == 2       \* chat commands that may be in flight at once
MaxCmds == 3        \* chat commands dispatched over a run
MaxCalls == 2       \* Call handles the voice manager creates over a run
ManyTracks == 2     \* track counts from here on are counted as this many
MaxEntries == 2     \* entries of a directory find_path_for_name is called on
MaxLen == 3         \* characters of a string soundboard_sanitize is called on

Tasks == 1..NumTasks
CallIds == 1..MaxCalls
Guilds == {"g1", "g2"}
NoCall == 0
Free == <<"free">>
ByTask(t) == <<"task", t>>
ByConsole == <<"console">>

\* ------------------------------------------------------- name resolution
\* Accented letters are written base letter + mark: ' acute, : diaeresis,
\* '' double acute.
Upper == <<"A", "E", "I", "O", "U", "A'", "E'", "I'", "O'", "O:", "O''", "U'", "U:", "U''",
           "P", "Z", "N", "F", "L", "M", "R">>
Lowered == <<"a", "e", "i", "o", "u", "a'", "e'", "i'", "o'", "o:", "o''", "u'", "u:", "u''",
             "p", "z", "n", "f", "l", "m", "r">>

\* char::to_lowercase on the modelled alphabet
to_lowercase_char(c) ==
    IF \E i \in 1..Len(Upper) : Upper[i] = c
    THEN Lowered[CHOOSE i \in 1..Len(Upper) : Upper[i] = c]
    ELSE c

to_lowercase(s) == [i \in 1..Len(s) |-> to_lowercase_char(s[i])]

\* str::replace for a one-character pattern and a one-character replacement
replace(s, from, to) == [i \in 1..Len(s) |-> IF s[i] = from THEN to ELSE s[i]]

\* str::replace(" ", "")
remove(s, from) == SelectSeq(s, LAMBDA c : c # from)

soundboard_sanitize_fold_first(str) ==
    LET s1 == replace(str, "u''", "u")
        s2 == replace(s1, "u:", "u")
        s3 == replace(s2, "u'", "u")
        s4 == replace(s3, "o:", "o")
        s5 == replace(s4, "o''", "o")
        s6 == replace(s5, "o'", "o")
        s7 == replace(s6, "a'", "a")
        s8 == replace(s7, "i'", "i")
        s9 == replace(s8, "e'", "e")
    IN to_lowercase(remove(s9, " "))

soundboard_sanitize(str) ==
    LET s0 == to_lowercase(str)
        s1 == replace(s0, "u''", "u")
        s2 == replace(s1, "u:", "u")
        s3 == replace(s2, "u'", "u")
        s4 == replace(s3, "o:", "o")
        s5 == replace(s4, "o''", "o")
        s6 == replace(s5, "o'", "o")
        s7 == replace(s6, "a'", "a")
        s8 == replace(s7, "i'", "i")
        s9 == replace(s8, "e'", "e")
    IN remove(s9, " ")

starts_with(s, p) == Len(p) <= Len(s) /\ SubSeq(s, 1, Len(p)) = p

soundboard_compare(file_name, name_chunk) ==
    starts_with(soundboard_sanitize(file_name), soundboard_sanitize(name_chunk))

NOFILENAMEERROR ==
    <<"N", "O", "F", "I", "L", "E", "N", "A", "M", "E", "E", "R", "R", "O", "R">>

\* The sounds directory as read_dir lists it: name, whether the entry is a
\* directory, whether the name is valid UTF-8, whether ffmpeg can open it.
Listing ==
    << [name |-> <<"a", "p">>, is_dir |-> TRUE, utf8 |-> TRUE, decodable |-> FALSE],
       [name |-> <<"A'", "p", " ", "l">>, is_dir |-> FALSE, utf8 |-> TRUE, decodable |-> TRUE],
       [name |-> <<"a", "p", "z">>, is_dir |-> FALSE, utf8 |-> TRUE, decodable |-> FALSE],
       [name |-> <<"n", "x">>, is_dir |-> FALSE, utf8 |-> FALSE, decodable |-> TRUE] >>

extract_name(e) == IF e.utf8 THEN e.name ELSE NOFILENAMEERROR

NotFound == 0

\* find_path_for_name on the directory read_dir lists as `entries`: the index
\* of the path it returns, or NotFound.  readable: read_dir and every entry of
\* it are Ok; an Err returns None through the ? operator.
find_path_in(entries, readable, name) ==
    LET files == {i \in 1..Len(entries) : ~entries[i].is_dir}
        hits == {i \in files : soundboard_compare(extract_name(entries[i]), name)}
    IN IF ~readable \/ hits = {} THEN NotFound
       ELSE CHOOSE i \in hits : \A j \in hits : i <= j

\* Fragments typed on the console or given to the chat play command.
Fragments == { <<>>, <<"A", "P">>, <<"a", "p", "Z">>, <<"z">>, <<"n", "o">> }

\* find_path_for_name on the sounds directory of the running program (Listing,
\* readable), for each name the commands give it.
Resolution == [name \in Fragments |-> find_path_in(Listing, TRUE, name)]

\* Index in Listing of the path find_path_for_name returns, or NotFound.
find_path_for_name(name) ==
    IF name \in Fragments THEN Resolution[name] ELSE find_path_in(Listing, TRUE, name)

\* ------------------------------------------------------------------ state
VARIABLES
    ctx,          \* HandlerState.ctx: NoCtx is None; successive ready events
                  \* store contexts 1 and 2 in turn
    guilds,       \* HandlerState.guilds
    stateLock,    \* owner of the Mutex<HandlerState>: "free", "console" or "ready"
    rpc,          \* position of the ready handler: "idle", "waiting" for the
                  \* state lock, "locked", "guilds_set"
    rguilds,      \* ready.guilds of the event being handled
    calls,        \* the voice manager's table: set of [guild, id]
    nextId,       \* id of the next Call the manager creates
    callLock,     \* owner of each Call's Mutex: Free, ByTask(t) or ByConsole
    self_mute,    \* Call.self_mute of each Call
    self_deaf,    \* Call.self_deaf of each Call
    tracks,       \* number of tracks each Call's driver plays, up to ManyTracks
    pc,           \* position of each chat command task
    cmd,          \* the command each task runs
    guild,        \* msg.guild of each task
    hnd,          \* the Arc<Mutex<Call>> a task holds (handler_lock), or NoCall
    out,          \* the replies a task has sent, in order
    res,          \* what the collaborator call of a task returned
    fresh,        \* whether a join task created the Call it holds
    dispatched,   \* chat commands dispatched so far
    last,         \* the chat command that completed last: [cmd, guild, acted],
                  \* acted: it held a Call that was in the table as it completed
    repeat,       \* per task: the command that completed right before it was
                  \* dispatched was the same command on the same room and
                  \* acted, and no other command has been in flight since
    cpc,          \* position of the console loop
    line,         \* the console line being processed
    cpath,        \* index in Listing of the path process_input resolved
    ci,           \* index in guilds of find_active_voice_channel's loop
    chnd,         \* the Call process_input found
    cres,         \* the result process_input returned for line, <<>> while none
    cunset,       \* whether ctx was None when process_input took the state lock
    cplayed,      \* what process_input started for line: "none", "live" or "stale"
    exits,        \* "exit" lines read so far
    afterExit,    \* lines read after an "exit" line was read
    shutdowns,    \* shutdown_all invocations so far
    client,       \* the chat listener (client.start()): "running" or "stopped"
    terminated,   \* main has returned
    dir,          \* the sounds directory read_dir lists, for a call of
                  \* find_path_for_name on its own
    dir_ok,       \* whether read_dir and every entry of it can be read
    fname,        \* the name that call is given
    found,        \* what that call returned: an index in dir, or NotFound
    text,         \* the argument of a call of soundboard_sanitize on its own
    canon,        \* what soundboard_sanitize returned for text, and then for
                  \* each of its own results, in order
    fpc           \* position of those calls: "call" or "returned"

chatVars == <<pc, cmd, guild, hnd, out, res, fresh, dispatched, last, repeat>>
callVars == <<calls, nextId, callLock, self_mute, self_deaf, tracks>>
stateVars == <<ctx, guilds, stateLock>>
readyVars == <<rpc, rguilds>>
consoleVars == <<cpc, line, cpath, ci, chnd, cres, cunset, cplayed, exits, afterExit, shutdowns>>
mainVars == <<client, terminated>>
fnVars == <<dir, dir_ok, fname, found, text, canon, fpc>>
vars == <<chatVars, callVars, stateVars, readyVars, consoleVars, mainVars, fnVars>>

Cmds == {"join", "leave", "mute", "unmute", "deafen", "undeafen", "play", "ping"}
FlagCmds == {"mute", "unmute", "deafen", "undeafen"}
NoLast == [cmd |-> "none", guild |-> "none", acted |-> FALSE]
NoCtx == 0
Idle(t) == pc[t] \in {"idle", "done"}

\* The state after main has built the client and the Handler.
Boot ==
    /\ ctx = NoCtx /\ guilds = <<>> /\ stateLock = "free"
    /\ rpc = "idle" /\ rguilds = <<>>
    /\ calls = {} /\ nextId = 1
    /\ callLock = [h \in CallIds |-> Free]
    /\ self_mute = [h \in CallIds |-> FALSE]
    /\ self_deaf = [h \in CallIds |-> FALSE]
    /\ tracks = [h \in CallIds |-> 0]
    /\ pc = [t \in Tasks |-> "idle"]
    /\ cmd = [t \in Tasks |-> "ping"]
    /\ guild = [t \in Tasks |-> "g1"]
    /\ hnd = [t \in Tasks |-> NoCall]
    /\ out = [t \in Tasks |-> <<>>]
    /\ res = [t \in Tasks |-> "none"]
    /\ fresh = [t \in Tasks |-> FALSE]
    /\ dispatched = 0
    /\ last = NoLast
    /\ repeat = [t \in Tasks |-> FALSE]
    /\ cpc = "read" /\ line = <<>> /\ cpath = NotFound /\ ci = 1 /\ chnd = NoCall
    /\ cres = <<>> /\ cunset = FALSE /\ cplayed = "none"
    /\ exits = 0 /\ afterExit = 0 /\ shutdowns = 0
    /\ client = "running" /\ terminated = FALSE

Init ==
    /\ Boot
    /\ dir = Listing /\ dir_ok = TRUE /\ fname = <<>> /\ found = NotFound
    /\ text = <<>> /\ canon = <<>> /\ fpc = "returned"

\* ----------------------------------------------------- the voice manager
\* The manager (songbird) is a collaborator the commands call into.  Its
\* operations are modelled step by step as the commands drive them:
\*   get(guild)       reads the table;
\*   join(guild, ch)  gets or inserts the guild's Call in one step on the
\*                    table, then locks the Call and connects it;
\*   remove(guild)    looks the Call up (Err when there is none), locks it and
\*                    leaves (Err returns early), then erases the guild's entry;
\*   Call::mute/deafen store the flag, then send the update that may fail;
\*   Call::play_source adds a track to those the driver plays.

\* Songbird::get
get(g) == IF \E c \in calls : c.guild = g
          THEN (CHOOSE c \in calls : c.guild = g).id
          ELSE NoCall

get_or_insert_always(g) == calls \cup {[guild |-> g, id |-> nextId]}

\* Songbird::join's get_or_insert: the table after it
get_or_insert(g) == IF get(g) # NoCall THEN calls
                    ELSE calls \cup {[guild |-> g, id |-> nextId]}

InTable(h) == \E c \in calls : c.id = h

\* Driver::play_source adds a track to those the driver mixes
add_track(n) == IF n < ManyTracks THEN n + 1 ELSE ManyTracks

\* The framework runs a command of C for a chat message from a room of G
\* while the client runs; the task takes the first free slot.
Dispatch(t, C, G) ==
    /\ ~terminated /\ client = "running"
    /\ Idle(t)
    /\ \A u \in Tasks : u < t => ~Idle(u)
    /\ dispatched < MaxCmds
    /\ \E c \in C, g \in G :
         /\ cmd' = [cmd EXCEPT ![t] = c]
         /\ guild' = [guild EXCEPT ![t] = g]
         /\ repeat' = [u \in Tasks |->
                          /\ u = t
                          /\ \A v \in Tasks : Idle(v)
                          /\ last = [cmd |-> c, guild |-> g, acted |-> TRUE]]
    /\ pc' = [pc EXCEPT ![t] = "start"]
    /\ hnd' = [hnd EXCEPT ![t] = NoCall]
    /\ out' = [out EXCEPT ![t] = <<>>]
    /\ res' = [res EXCEPT ![t] = "none"]
    /\ fresh' = [fresh EXCEPT ![t] = FALSE]
    /\ dispatched' = dispatched + 1
    /\ UNCHANGED last
    /\ UNCHANGED <<callVars, stateVars, readyVars, consoleVars, mainVars>>
    /\ UNCHANGED fnVars

\* A command returns after sending `replies`.
Finish(t, replies) ==
    /\ pc' = [pc EXCEPT ![t] = "done"]
    /\ out' = [out EXCEPT ![t] = out[t] \o replies]
    /\ last' = [cmd |-> cmd[t], guild |-> guild[t],
                acted |-> hnd[t] # NoCall /\ InTable(hnd[t])]

ping(t) ==
    /\ ~terminated /\ pc[t] = "start" /\ cmd[t] = "ping"
    /\ Finish(t, <<"Pong!">>)
    /\ UNCHANGED <<cmd, guild, hnd, res, fresh, dispatched, repeat>>
    /\ UNCHANGED <<callVars, stateVars, readyVars, consoleVars, mainVars>>
    /\ UNCHANGED fnVars

\* join up to the manager's get_or_insert: the author is in a voice channel or not
join(t) ==
    /\ ~terminated /\ pc[t] = "start" /\ cmd[t] = "join"
    /\ \E in_voice \in BOOLEAN :
         IF ~in_voice
         THEN /\ Finish(t, <<"Not in a voice channel">>)
              /\ UNCHANGED <<hnd, fresh, calls, nextId>>
         ELSE /\ (get_or_insert(guild[t]) # calls => nextId <= MaxCalls)
              /\ calls' = get_or_insert(guild[t])
              /\ fresh' = [fresh EXCEPT ![t] = (calls' # calls)]
              /\ hnd' = [hnd EXCEPT ![t] = IF calls' # calls THEN nextId ELSE get(guild[t])]
              /\ nextId' = IF calls' # calls THEN nextId + 1 ELSE nextId
              /\ pc' = [pc EXCEPT ![t] = "join_lock"]
              /\ UNCHANGED <<out, last>>
    /\ UNCHANGED <<cmd, guild, res, dispatched, repeat>>
    /\ UNCHANGED <<callLock, self_mute, self_deaf, tracks>>
    /\ UNCHANGED <<stateVars, readyVars, consoleVars, mainVars>>
    /\ UNCHANGED fnVars

\* call.lock().await of a chat task, at the position `at`
Lock(t, at, next) ==
    /\ ~terminated /\ pc[t] = at
    /\ callLock[hnd[t]] = Free
    /\ callLock' = [callLock EXCEPT ![hnd[t]] = ByTask(t)]
    /\ pc' = [pc EXCEPT ![t] = next]
    /\ UNCHANGED <<cmd, guild, hnd, out, res, fresh, dispatched, last, repeat>>
    /\ UNCHANGED <<calls, nextId, self_mute, self_deaf, tracks>>
    /\ UNCHANGED <<stateVars, readyVars, consoleVars, mainVars>>
    /\ UNCHANGED fnVars

join_lock(t) == Lock(t, "join_lock", "join_connect")

\* handler.join(channel) under the Call's lock; the result is dropped and
\* nothing is replied
join_connect(t) ==
    /\ ~terminated /\ pc[t] = "join_connect"
    /\ \E r \in {"ok", "err"} : res' = [res EXCEPT ![t] = r]
    /\ callLock' = [callLock EXCEPT ![hnd[t]] = Free]
    /\ Finish(t, <<>>)
    /\ UNCHANGED <<cmd, guild, hnd, fresh, dispatched, repeat>>
    /\ UNCHANGED <<calls, nextId, self_mute, self_deaf, tracks>>
    /\ UNCHANGED <<stateVars, readyVars, consoleVars, mainVars>>
    /\ UNCHANGED fnVars

\* has_handler = manager.get(guild_id).is_some()
leave(t) ==
    /\ ~terminated /\ pc[t] = "start" /\ cmd[t] = "leave"
    /\ IF get(guild[t]) # NoCall
       THEN pc' = [pc EXCEPT ![t] = "leave_remove"] /\ UNCHANGED <<out, last>>
       ELSE Finish(t, <<"Not in a voice channel">>)
    /\ UNCHANGED <<cmd, guild, hnd, res, fresh, dispatched, repeat>>
    /\ UNCHANGED <<callVars, stateVars, readyVars, consoleVars, mainVars>>
    /\ UNCHANGED fnVars

\* manager.remove: its leave looks the Call up again
leave_remove(t) ==
    /\ ~terminated /\ pc[t] = "leave_remove"
    /\ IF get(guild[t]) # NoCall
       THEN /\ hnd' = [hnd EXCEPT ![t] = get(guild[t])]
            /\ pc' = [pc EXCEPT ![t] = "leave_lock"]
            /\ UNCHANGED <<out, res, last>>
       ELSE /\ res' = [res EXCEPT ![t] = "nocall"]
            /\ Finish(t, <<"Failed", "Left voice channel">>)
            /\ UNCHANGED hnd
    /\ UNCHANGED <<cmd, guild, fresh, dispatched, repeat>>
    /\ UNCHANGED <<callVars, stateVars, readyVars, consoleVars, mainVars>>
    /\ UNCHANGED fnVars

leave_lock(t) == Lock(t, "leave_lock", "leave_call")

\* handler.leave() under the Call's lock; an error returns from remove early
leave_call(t) ==
    /\ ~terminated /\ pc[t] = "leave_call"
    /\ callLock' = [callLock EXCEPT ![hnd[t]] = Free]
    /\ \E r \in {"ok", "err"} :
         /\ res' = [res EXCEPT ![t] = r]
         /\ IF r = "ok"
            THEN pc' = [pc EXCEPT ![t] = "leave_erase"] /\ UNCHANGED <<out, last>>
            ELSE Finish(t, <<"Failed", "Left voice channel">>)
    /\ UNCHANGED <<cmd, guild, hnd, fresh, dispatched, repeat>>
    /\ UNCHANGED <<calls, nextId, self_mute, self_deaf, tracks>>
    /\ UNCHANGED <<stateVars, readyVars, consoleVars, mainVars>>
    /\ UNCHANGED fnVars

\* calls.remove(&guild_id), then the reply
leave_erase(t) ==
    /\ ~terminated /\ pc[t] = "leave_erase"
    /\ calls' = {c \in calls : c.guild # guild[t]}
    /\ Finish(t, <<"Left voice channel">>)
    /\ UNCHANGED <<cmd, guild, hnd, res, fresh, dispatched, repeat>>
    /\ UNCHANGED <<nextId, callLock, self_mute, self_deaf, tracks>>
    /\ UNCHANGED <<stateVars, readyVars, consoleVars, mainVars>>
    /\ UNCHANGED fnVars

\* manager.get(guild_id) of mute, unmute, deafen, undeafen
GetHandler(t, c, missing, next) ==
    /\ ~terminated /\ pc[t] = "start" /\ cmd[t] = c
    /\ IF get(guild[t]) # NoCall
       THEN /\ hnd' = [hnd EXCEPT ![t] = get(guild[t])]
            /\ pc' = [pc EXCEPT ![t] = next]
            /\ UNCHANGED <<out, last>>
       ELSE Finish(t, <<missing>>) /\ UNCHANGED hnd
    /\ UNCHANGED <<cmd, guild, res, fresh, dispatched, repeat>>
    /\ UNCHANGED <<callVars, stateVars, readyVars, consoleVars, mainVars>>
    /\ UNCHANGED fnVars

\* The replies after a collaborator call that returned r
Replies(r, done) == IF r = "err" THEN <<"Failed", done>> ELSE <<done>>

mute(t) == GetHandler(t, "mute", "Not in a voice channel", "mute_lock")

mute_lock(t) == Lock(t, "mute_lock", "mute_set")

mute_set_unguarded(t) ==
    /\ ~terminated /\ pc[t] = "mute_set"
    /\ callLock' = [callLock EXCEPT ![hnd[t]] = Free]
    /\ \E r \in {"ok", "err"} :
         /\ self_mute' = [self_mute EXCEPT ![hnd[t]] = TRUE]
         /\ res' = [res EXCEPT ![t] = r]
         /\ Finish(t, Replies(r, "Now muted"))
    /\ UNCHANGED <<cmd, guild, hnd, fresh, dispatched, repeat>>
    /\ UNCHANGED <<calls, nextId, self_deaf, tracks>>
    /\ UNCHANGED <<stateVars, readyVars, consoleVars, mainVars>>
    /\ UNCHANGED fnVars

mute_set_keeping_lock(t) ==
    /\ ~terminated /\ pc[t] = "mute_set"
    /\ IF self_mute[hnd[t]]
       THEN Finish(t, <<"Already muted">>) /\ UNCHANGED <<self_mute, res>>
       ELSE \E r \in {"ok", "err"} :
              /\ self_mute' = [self_mute EXCEPT ![hnd[t]] = TRUE]
              /\ res' = [res EXCEPT ![t] = r]
              /\ Finish(t, Replies(r, "Now muted"))
    /\ UNCHANGED <<cmd, guild, hnd, fresh, dispatched, repeat>>
    /\ UNCHANGED <<calls, nextId, callLock, self_deaf, tracks>>
    /\ UNCHANGED <<stateVars, readyVars, consoleVars, mainVars>>
    /\ UNCHANGED fnVars

\* if handler.is_mute() { .. } else { handler.mute(true) .. }: Call::mute stores
\* the flag before it sends the update that may fail
mute_set(t) ==
    /\ ~terminated /\ pc[t] = "mute_set"
    /\ callLock' = [callLock EXCEPT ![hnd[t]] = Free]
    /\ IF self_mute[hnd[t]]
       THEN Finish(t, <<"Already muted">>) /\ UNCHANGED <<self_mute, res>>
       ELSE \E r \in {"ok", "err"} :
              /\ self_mute' = [self_mute EXCEPT ![hnd[t]] = TRUE]
              /\ res' = [res EXCEPT ![t] = r]
              /\ Finish(t, Replies(r, "Now muted"))
    /\ UNCHANGED <<cmd, guild, hnd, fresh, dispatched, repeat>>
    /\ UNCHANGED <<calls, nextId, self_deaf, tracks>>
    /\ UNCHANGED <<stateVars, readyVars, consoleVars, mainVars>>
    /\ UNCHANGED fnVars

unmute(t) == GetHandler(t, "unmute", "Not in a voice channel to unmute in", "unmute_lock")

unmute_lock(t) == Lock(t, "unmute_lock", "unmute_clear")

\* handler.mute(false), whatever the flag is
unmute_clear(t) ==
    /\ ~terminated /\ pc[t] = "unmute_clear"
    /\ callLock' = [callLock EXCEPT ![hnd[t]] = Free]
    /\ \E r \in {"ok", "err"} :
         /\ self_mute' = [self_mute EXCEPT ![hnd[t]] = FALSE]
         /\ res' = [res EXCEPT ![t] = r]
         /\ Finish(t, Replies(r, "Unmuted"))
    /\ UNCHANGED <<cmd, guild, hnd, fresh, dispatched, repeat>>
    /\ UNCHANGED <<calls, nextId, self_deaf, tracks>>
    /\ UNCHANGED <<stateVars, readyVars, consoleVars, mainVars>>
    /\ UNCHANGED fnVars

deafen(t) == GetHandler(t, "deafen", "Not in a voice channel", "deafen_lock")

deafen_lock(t) == Lock(t, "deafen_lock", "deafen_set")

\* if handler.is_deaf() { .. } else { handler.deafen(true) .. }
deafen_set(t) ==
    /\ ~terminated /\ pc[t] = "deafen_set"
    /\ callLock' = [callLock EXCEPT ![hnd[t]] = Free]
    /\ IF self_deaf[hnd[t]]
       THEN Finish(t, <<"Already deafened">>) /\ UNCHANGED <<self_deaf, res>>
       ELSE \E r \in {"ok", "err"} :
              /\ self_deaf' = [self_deaf EXCEPT ![hnd[t]] = TRUE]
              /\ res' = [res EXCEPT ![t] = r]
              /\ Finish(t, Replies(r, "Deafened"))
    /\ UNCHANGED <<cmd, guild, hnd, fresh, dispatched, repeat>>
    /\ UNCHANGED <<calls, nextId, self_mute, tracks>>
    /\ UNCHANGED <<stateVars, readyVars, consoleVars, mainVars>>
    /\ UNCHANGED fnVars

undeafen(t) == GetHandler(t, "undeafen", "Not in a voice channel to undeafen in", "undeafen_lock")

undeafen_lock(t) == Lock(t, "undeafen_lock", "undeafen_clear")

\* handler.deafen(false), whatever the flag is
undeafen_clear(t) ==
    /\ ~terminated /\ pc[t] = "undeafen_clear"
    /\ callLock' = [callLock EXCEPT ![hnd[t]] = Free]
    /\ \E r \in {"ok", "err"} :
         /\ self_deaf' = [self_deaf EXCEPT ![hnd[t]] = FALSE]
         /\ res' = [res EXCEPT ![t] = r]
         /\ Finish(t, Replies(r, "Undeafened"))
    /\ UNCHANGED <<cmd, guild, hnd, fresh, dispatched, repeat>>
    /\ UNCHANGED <<calls, nextId, self_mute, tracks>>
    /\ UNCHANGED <<stateVars, readyVars, consoleVars, mainVars>>
    /\ UNCHANGED fnVars

\* play up to the session lookup: the argument (the empty one stands for a
\* missing argument), the file, the ffmpeg source
play(t) ==
    /\ ~terminated /\ pc[t] = "start" /\ cmd[t] = "play"
    /\ \E chunk \in Fragments :
         LET path == find_path_for_name(chunk) IN
         IF chunk = <<>> THEN Finish(t, <<"No matching sound.">>)
         ELSE IF path = NotFound THEN Finish(t, <<"no matching file found">>)
         ELSE IF ~Listing[path].decodable THEN Finish(t, <<"Error sourcing ffmpeg">>)
         ELSE pc' = [pc EXCEPT ![t] = "play_get"] /\ UNCHANGED <<out, last>>
    /\ UNCHANGED <<cmd, guild, hnd, res, fresh, dispatched, repeat>>
    /\ UNCHANGED <<callVars, stateVars, readyVars, consoleVars, mainVars>>
    /\ UNCHANGED fnVars

\* if let Some(handler_lock) = manager.get(guild_id)
play_get(t) ==
    /\ ~terminated /\ pc[t] = "play_get"
    /\ IF get(guild[t]) # NoCall
       THEN /\ hnd' = [hnd EXCEPT ![t] = get(guild[t])]
            /\ pc' = [pc EXCEPT ![t] = "play_lock"]
            /\ UNCHANGED <<out, last>>
       ELSE Finish(t, <<"Not in a voice channel to play in">>) /\ UNCHANGED hnd
    /\ UNCHANGED <<cmd, guild, res, fresh, dispatched, repeat>>
    /\ UNCHANGED <<callVars, stateVars, readyVars, consoleVars, mainVars>>
    /\ UNCHANGED fnVars

play_lock(t) == Lock(t, "play_lock", "play_source")

\* handler.play_source(source): the driver adds a track to those it plays
play_source(t) ==
    /\ ~terminated /\ pc[t] = "play_source"
    /\ callLock' = [callLock EXCEPT ![hnd[t]] = Free]
    /\ tracks' = [tracks EXCEPT ![hnd[t]] = add_track(tracks[hnd[t]])]
    /\ res' = [res EXCEPT ![t] = IF InTable(hnd[t]) THEN "live" ELSE "stale"]
    /\ Finish(t, <<"Playing song 2">>)
    /\ UNCHANGED <<cmd, guild, hnd, fresh, dispatched, repeat>>
    /\ UNCHANGED <<calls, nextId, self_mute, self_deaf>>
    /\ UNCHANGED <<stateVars, readyVars, consoleVars, mainVars>>
    /\ UNCHANGED fnVars

JoinStep(t) == join(t) \/ join_lock(t) \/ join_connect(t)

LeaveStep(t) ==
    leave(t) \/ leave_remove(t) \/ leave_lock(t) \/ leave_call(t) \/ leave_erase(t)

PlayStep(t) == play(t) \/ play_get(t) \/ play_lock(t) \/ play_source(t)

FlagStep(t) ==
    \/ mute(t) \/ mute_lock(t) \/ mute_set(t)
    \/ unmute(t) \/ unmute_lock(t) \/ unmute_clear(t)
    \/ deafen(t) \/ deafen_lock(t) \/ deafen_set(t)
    \/ undeafen(t) \/ undeafen_lock(t) \/ undeafen_clear(t)

\* ------------------------------------------------------- the ready event
ReadyLists == { <<"g1">>, <<"g2", "g1">> }

\* The client calls the handler with a ready event.
ready ==
    /\ ~terminated /\ client = "running"
    /\ rpc = "idle"
    /\ rpc' = "waiting"
    /\ UNCHANGED <<rguilds, stateVars, chatVars, callVars, consoleVars, mainVars>>
    /\ UNCHANGED fnVars

\* let mut state = self.state.lock().await, in the handler of the event whose
\* ready.guilds is lst
ready_lock(lst) ==
    /\ ~terminated /\ rpc = "waiting"
    /\ stateLock = "free"
    /\ stateLock' = "ready"
    /\ rguilds' = lst
    /\ rpc' = "locked"
    /\ UNCHANGED <<ctx, guilds, chatVars, callVars, consoleVars, mainVars>>
    /\ UNCHANGED fnVars

ready_guilds_unlocked ==
    /\ ~terminated /\ rpc = "locked"
    /\ guilds' = rguilds
    /\ stateLock' = "free"
    /\ rpc' = "guilds_set"
    /\ UNCHANGED <<ctx, rguilds, chatVars, callVars, consoleVars, mainVars>>
    /\ UNCHANGED fnVars

\* state.guilds = ready.guilds.clone()
ready_guilds ==
    /\ ~terminated /\ rpc = "locked"
    /\ guilds' = rguilds
    /\ rpc' = "guilds_set"
    /\ UNCHANGED <<ctx, stateLock, rguilds, chatVars, callVars, consoleVars, mainVars>>
    /\ UNCHANGED fnVars

\* state.ctx = Some(ctx); the guard is dropped
ready_ctx ==
    /\ ~terminated /\ rpc = "guilds_set"
    /\ ctx' = IF ctx = 1 THEN 2 ELSE 1
    /\ stateLock' = "free"
    /\ rpc' = "idle"
    /\ UNCHANGED <<guilds, rguilds, chatVars, callVars, consoleVars, mainVars>>
    /\ UNCHANGED fnVars

\* ------------------------------------------------------ the console loop
EXIT == <<"e", "x", "i", "t">>

IsSpace(c) == c \in {" ", "\n"}

RECURSIVE trim_start(_)
trim_start(s) == IF s # <<>> /\ IsSpace(Head(s)) THEN trim_start(Tail(s)) ELSE s

RECURSIVE trim_end(_)
trim_end(s) == IF s # <<>> /\ IsSpace(s[Len(s)]) THEN trim_end(SubSeq(s, 1, Len(s) - 1)) ELSE s

\* str::trim
trim(s) == trim_end(trim_start(s))

\* What read_line may leave in the buffer; the empty line is end of input.
RawLines == {f \o <<"\n">> : f \in Fragments \ {<<>>}}
            \cup { <<>>, <<"\n">>, EXIT \o <<"\n">>, <<" ">> \o EXIT \o <<" ", "\n">> }

ReadLine_or_break(Lines) ==
    /\ ~terminated /\ cpc = "read"
    /\ \E ok \in BOOLEAN, raw \in Lines :
         IF ~ok \/ raw = <<>>
         THEN cpc' = "done" /\ UNCHANGED <<line, cres, cunset, cplayed, exits, afterExit>>
         ELSE /\ line' = trim(raw)
              /\ cres' = <<>> /\ cunset' = FALSE /\ cplayed' = "none"
              /\ afterExit' = IF exits > 0 THEN afterExit + 1 ELSE afterExit
              /\ IF line' = EXIT
                 THEN cpc' = "shutdown" /\ exits' = exits + 1
                 ELSE cpc' = "process_input" /\ UNCHANGED exits
    /\ UNCHANGED <<cpath, ci, chnd, shutdowns>>
    /\ UNCHANGED <<chatVars, callVars, stateVars, readyVars, mainVars>>
    /\ UNCHANGED fnVars

\* stdin.read_line(&mut line).await, with a line of Lines left in the buffer
\* or an error, and the match on the trimmed line
ReadLine(Lines) ==
    /\ ~terminated /\ cpc = "read"
    /\ \E ok \in BOOLEAN, raw \in Lines :
         IF ~ok THEN UNCHANGED <<cpc, line, cres, cunset, cplayed, exits, afterExit>>
         ELSE /\ line' = trim(raw)
              /\ cres' = <<>> /\ cunset' = FALSE /\ cplayed' = "none"
              /\ afterExit' = IF exits > 0 THEN afterExit + 1 ELSE afterExit
              /\ IF line' = EXIT
                 THEN cpc' = "shutdown" /\ exits' = exits + 1
                 ELSE cpc' = "process_input" /\ UNCHANGED exits
    /\ UNCHANGED <<cpath, ci, chnd, shutdowns>>
    /\ UNCHANGED <<chatVars, callVars, stateVars, readyVars, mainVars>>
    /\ UNCHANGED fnVars

command_line_loop == ReadLine(RawLines)

shutdown_all_no_break ==
    /\ ~terminated /\ cpc = "shutdown"
    /\ shutdowns' = shutdowns + 1
    /\ cpc' = "read"
    /\ UNCHANGED <<line, cpath, ci, chnd, cres, cunset, cplayed, exits, afterExit>>
    /\ UNCHANGED <<chatVars, callVars, stateVars, readyVars, mainVars>>
    /\ UNCHANGED fnVars

\* shard_manager.lock().await.shutdown_all().await; break
shutdown_all ==
    /\ ~terminated /\ cpc = "shutdown"
    /\ shutdowns' = shutdowns + 1
    /\ cpc' = "done"
    /\ UNCHANGED <<line, cpath, ci, chnd, cres, cunset, cplayed, exits, afterExit>>
    /\ UNCHANGED <<chatVars, callVars, stateVars, readyVars, mainVars>>
    /\ UNCHANGED fnVars

Return_or_break(r) ==
    /\ cres' = r
    /\ stateLock' = "free"
    /\ cpath' = NotFound /\ ci' = 1 /\ chnd' = NoCall
    /\ cpc' = IF r[1] = "Playing" THEN "read" ELSE "done"

\* process_input returns r: its locals and its guard on the state are dropped
\* and the loop prints r
Return(r) ==
    /\ cres' = r
    /\ stateLock' = "free"
    /\ cpath' = NotFound /\ ci' = 1 /\ chnd' = NoCall
    /\ cpc' = "read"

\* let state = state.lock().await
process_input ==
    /\ ~terminated /\ cpc = "process_input"
    /\ stateLock = "free"
    /\ stateLock' = "console"
    /\ cunset' = (ctx = NoCtx)
    /\ cpc' = "find_path"
    /\ UNCHANGED <<line, cpath, ci, chnd, cres, cplayed, exits, afterExit, shutdowns>>
    /\ UNCHANGED <<ctx, guilds, chatVars, callVars, readyVars, mainVars>>
    /\ UNCHANGED fnVars

\* find_path_for_name(&input) and the file name of the path
process_input_path ==
    /\ ~terminated /\ cpc = "find_path"
    /\ LET path == find_path_for_name(line) IN
       IF path = NotFound THEN Return(<<"no matching file found">>)
       ELSE IF ~Listing[path].utf8 THEN Return(<<"Invalid path">>)
       ELSE cpath' = path /\ cpc' = "ffmpeg" /\ UNCHANGED <<ci, chnd, cres, stateLock>>
    /\ UNCHANGED <<line, cunset, cplayed, exits, afterExit, shutdowns>>
    /\ UNCHANGED <<ctx, guilds, chatVars, callVars, readyVars, mainVars>>
    /\ UNCHANGED fnVars

\* songbird::input::ffmpeg(path).await
process_input_ffmpeg ==
    /\ ~terminated /\ cpc = "ffmpeg"
    /\ IF Listing[cpath].decodable
       THEN cpc' = "find_active" /\ UNCHANGED <<cpath, ci, chnd, cres, stateLock>>
       ELSE Return(<<"Invalid file", Listing[cpath].name>>)
    /\ UNCHANGED <<line, cunset, cplayed, exits, afterExit, shutdowns>>
    /\ UNCHANGED <<ctx, guilds, chatVars, callVars, readyVars, mainVars>>
    /\ UNCHANGED fnVars

find_active_voice_channel_unchecked ==
    /\ ~terminated /\ cpc = "find_active"
    /\ IF ci > Len(guilds) THEN Return(<<"No active voice channel found">>)
       ELSE IF get(guilds[ci]) # NoCall
       THEN /\ chnd' = get(guilds[ci])
            /\ cpc' = "call_lock"
            /\ UNCHANGED <<cpath, ci, cres, stateLock>>
       ELSE ci' = ci + 1 /\ UNCHANGED <<cpc, cpath, chnd, cres, stateLock>>
    /\ UNCHANGED <<line, cunset, cplayed, exits, afterExit, shutdowns>>
    /\ UNCHANGED <<ctx, guilds, chatVars, callVars, readyVars, mainVars>>
    /\ UNCHANGED fnVars

find_active_voice_channel_any_room ==
    /\ ~terminated /\ cpc = "find_active"
    /\ IF ctx = NoCtx THEN Return(<<"State is uninitialized">>)
       ELSE IF calls = {} THEN Return(<<"No active voice channel found">>)
       ELSE /\ chnd' = (CHOOSE c \in calls : TRUE).id
            /\ cpc' = "call_lock"
            /\ UNCHANGED <<cpath, ci, cres, stateLock>>
    /\ UNCHANGED <<line, cunset, cplayed, exits, afterExit, shutdowns>>
    /\ UNCHANGED <<ctx, guilds, chatVars, callVars, readyVars, mainVars>>
    /\ UNCHANGED fnVars

\* One turn of find_active_voice_channel: the check of state.ctx, then
\* manager.get for the guild at ci
find_active_voice_channel ==
    /\ ~terminated /\ cpc = "find_active"
    /\ IF ctx = NoCtx THEN Return(<<"State is uninitialized">>)
       ELSE IF ci > Len(guilds) THEN Return(<<"No active voice channel found">>)
       ELSE IF get(guilds[ci]) # NoCall
       THEN /\ chnd' = get(guilds[ci])
            /\ cpc' = "call_lock"
            /\ UNCHANGED <<cpath, ci, cres, stateLock>>
       ELSE ci' = ci + 1 /\ UNCHANGED <<cpc, cpath, chnd, cres, stateLock>>
    /\ UNCHANGED <<line, cunset, cplayed, exits, afterExit, shutdowns>>
    /\ UNCHANGED <<ctx, guilds, chatVars, callVars, readyVars, mainVars>>
    /\ UNCHANGED fnVars

\* let mut voice_channel = voice_channel.lock().await
process_input_lock ==
    /\ ~terminated /\ cpc = "call_lock"
    /\ callLock[chnd] = Free
    /\ callLock' = [callLock EXCEPT ![chnd] = ByConsole]
    /\ cpc' = "play_source"
    /\ UNCHANGED <<line, cpath, ci, chnd, cres, cunset, cplayed, exits, afterExit, shutdowns>>
    /\ UNCHANGED <<calls, nextId, self_mute, self_deaf, tracks>>
    /\ UNCHANGED <<chatVars, stateVars, readyVars, mainVars>>
    /\ UNCHANGED fnVars

\* voice_channel.play_source(source); return Ok("Playing <file name>")
process_input_play ==
    /\ ~terminated /\ cpc = "play_source"
    /\ callLock' = [callLock EXCEPT ![chnd] = Free]
    /\ tracks' = [tracks EXCEPT ![chnd] = add_track(tracks[chnd])]
    /\ cplayed' = IF InTable(chnd) THEN "live" ELSE "stale"
    /\ Return(<<"Playing", Listing[cpath].name>>)
    /\ UNCHANGED <<line, cunset, exits, afterExit, shutdowns>>
    /\ UNCHANGED <<calls, nextId, self_mute, self_deaf>>
    /\ UNCHANGED <<ctx, guilds, chatVars, readyVars, mainVars>>
    /\ UNCHANGED fnVars

\* ------------------------------------------------------------------ main
\* client.start() returns once shutdown_all has stopped the shards
client_stop ==
    /\ ~terminated /\ client = "running"
    /\ shutdowns > 0
    /\ client' = "stopped"
    /\ UNCHANGED <<terminated, chatVars, callVars, stateVars, readyVars, consoleVars>>
    /\ UNCHANGED fnVars

\* client.start() returns on its own with an error
client_error ==
    /\ ~terminated /\ client = "running"
    /\ shutdowns = 0
    /\ client' = "stopped"
    /\ UNCHANGED <<terminated, chatVars, callVars, stateVars, readyVars, consoleVars>>
    /\ UNCHANGED fnVars

main_first_done ==
    /\ ~terminated
    /\ client = "stopped" \/ cpc = "done"
    /\ terminated' = TRUE
    /\ UNCHANGED <<client, chatVars, callVars, stateVars, readyVars, consoleVars>>
    /\ UNCHANGED fnVars

\* futures::join!(client_task, command_line_task) is complete and main returns;
\* the runtime is dropped with the tasks still in flight
main ==
    /\ ~terminated
    /\ client = "stopped" /\ cpc = "done"
    /\ terminated' = TRUE
    /\ UNCHANGED <<client, chatVars, callVars, stateVars, readyVars, consoleVars>>
    /\ UNCHANGED fnVars

ConsoleStep ==
    \/ command_line_loop \/ shutdown_all
    \/ process_input \/ process_input_path \/ process_input_ffmpeg
    \/ find_active_voice_channel \/ process_input_lock \/ process_input_play

ReadyStep == ready \/ (\E lst \in ReadyLists : ready_lock(lst)) \/ ready_guilds \/ ready_ctx

MainStep == client_stop \/ client_error \/ main

\* The console loop, the ready event and main, with the chat commands that
\* change the session table, one of them in flight at a time.
ConsoleSideTasks == {1}

Next ==
    \/ ConsoleStep \/ ReadyStep \/ MainStep
    \/ \E t \in ConsoleSideTasks :
          Dispatch(t, {"join", "leave"}, {"g1"}) \/ JoinStep(t) \/ LeaveStep(t)

Spec == Init /\ [][Next]_vars

\* The executor keeps polling the console task and main, and the chat listener
\* returns once shutdown_all has stopped its shards.
FairSpec ==
    Spec /\ WF_vars(shutdown_all) /\ WF_vars(client_stop) /\ WF_vars(main)

\* The session commands of the chat source alone.
NextChat ==
    \E t \in Tasks :
        Dispatch(t, {"join", "leave", "play"}, Guilds) \/ JoinStep(t) \/ LeaveStep(t) \/ PlayStep(t)

SpecChat == Init /\ [][NextChat]_vars

\* The flag commands of the chat source, on the sessions join and leave make.
NextFlags ==
    \E t \in Tasks :
        \/ Dispatch(t, {"join", "leave", "ping"} \cup FlagCmds, Guilds)
        \/ JoinStep(t) \/ LeaveStep(t) \/ FlagStep(t) \/ ping(t)

SpecFlags == Init /\ [][NextFlags]_vars

\* The console playing a sound that opens, with the ready event and the chat
\* commands that change the session table of both rooms.
PlayableLines == { <<"A", "P", "\n">> }

NextScan ==
    \/ ReadLine(PlayableLines)
    \/ process_input \/ process_input_path \/ process_input_ffmpeg
    \/ find_active_voice_channel \/ process_input_lock \/ process_input_play
    \/ ReadyStep
    \/ \E t \in ConsoleSideTasks :
          Dispatch(t, {"join", "leave"}, Guilds) \/ JoinStep(t) \/ LeaveStep(t)

SpecScan == Init /\ [][NextScan]_vars

\* The console loop, the ready event and main, with the chat commands that
\* open a session and play in it, one of them in flight at a time.
NextPlays ==
    \/ ConsoleStep \/ ReadyStep \/ MainStep
    \/ \E t \in ConsoleSideTasks :
          Dispatch(t, {"join", "play"}, {"g1"}) \/ JoinStep(t) \/ PlayStep(t)

SpecPlays == Init /\ [][NextPlays]_vars

\* The tasks that take locks: console plays (the state lock, then a Call's
\* lock), ready events (the state lock) and chat commands (a Call's lock).
ConsolePlay ==
    \/ process_input \/ process_input_path \/ process_input_ffmpeg
    \/ find_active_voice_channel \/ process_input_lock \/ process_input_play

ReadyRun == (\E lst \in ReadyLists : ready_lock(lst)) \/ ready_guilds \/ ready_ctx

MuteStep(t) == mute(t) \/ mute_lock(t) \/ mute_set(t)

\* The state after a ready event that lists g1 and a join of g1 have completed.
InitJoined ==
    /\ ctx = 1 /\ guilds = <<"g1">> /\ stateLock = "free"
    /\ rpc = "idle" /\ rguilds = <<"g1">>
    /\ calls = {[guild |-> "g1", id |-> 1]} /\ nextId = 2
    /\ callLock = [h \in CallIds |-> Free]
    /\ self_mute = [h \in CallIds |-> FALSE]
    /\ self_deaf = [h \in CallIds |-> FALSE]
    /\ tracks = [h \in CallIds |-> 0]
    /\ pc = [t \in Tasks |-> IF t = 1 THEN "done" ELSE "idle"]
    /\ cmd = [t \in Tasks |-> IF t = 1 THEN "join" ELSE "ping"]
    /\ guild = [t \in Tasks |-> "g1"]
    /\ hnd = [t \in Tasks |-> IF t = 1 THEN 1 ELSE NoCall]
    /\ out = [t \in Tasks |-> <<>>]
    /\ res = [t \in Tasks |-> IF t = 1 THEN "ok" ELSE "none"]
    /\ fresh = [t \in Tasks |-> t = 1]
    /\ dispatched = 1
    /\ last = [cmd |-> "join", guild |-> "g1", acted |-> TRUE]
    /\ repeat = [t \in Tasks |-> FALSE]
    /\ cpc = "read" /\ line = <<>> /\ cpath = NotFound /\ ci = 1 /\ chnd = NoCall
    /\ cres = <<>> /\ cunset = FALSE /\ cplayed = "none"
    /\ exits = 0 /\ afterExit = 0 /\ shutdowns = 0
    /\ client = "running" /\ terminated = FALSE
    /\ dir = Listing /\ dir_ok = TRUE /\ fname = <<>> /\ found = NotFound
    /\ text = <<>> /\ canon = <<>> /\ fpc = "returned"

NextLocks ==
    \/ ReadLine(PlayableLines) \/ ConsolePlay
    \/ ready \/ ReadyRun
    \/ \E t \in Tasks : Dispatch(t, {"mute"}, {"g1"}) \/ MuteStep(t)

\* The executor keeps polling every task that can run, the calls a lock holder
\* awaits return, and the locks (tokio::sync::Mutex) are fair: a task that
\* waits for a lock gets it once the tasks queued before it have released it.
SpecLocks ==
    /\ InitJoined /\ [][NextLocks]_vars
    /\ SF_vars(ConsolePlay) /\ SF_vars(ReadyRun)
    /\ \A t \in Tasks : SF_vars(MuteStep(t))

DeafenStep(t) == deafen(t) \/ deafen_lock(t) \/ deafen_set(t)

\* Mute and deafen commands alone, on the session of InitJoined.
NextMutes ==
    \E t \in Tasks :
        Dispatch(t, {"mute", "deafen"}, {"g1"}) \/ MuteStep(t) \/ DeafenStep(t)

SpecMutes == InitJoined /\ [][NextMutes]_vars

\* ------------------------------------------- the name functions on their own
SeqsUpTo(S, n) == UNION {[1..k -> S] : k \in 0..n}

\* File and directory names of the directories find_path_for_name is called on.
Names == { <<"a", "p">>, <<"A'", "p", " ", "z">>, <<"n", "x">> }

Entries ==
    {[name |-> n, is_dir |-> d, utf8 |-> u, decodable |-> ~d] :
        n \in Names, d \in BOOLEAN, u \in BOOLEAN}

Listings == SeqsUpTo(Entries, MaxEntries)

\* A call of find_path_for_name: any directory, readable or not, any name.
InitResolver ==
    /\ Boot
    /\ dir \in Listings /\ dir_ok \in BOOLEAN /\ fname \in Fragments
    /\ found = NotFound /\ fpc = "call"
    /\ text = <<>> /\ canon = <<>>

\* find_path_for_name(name) returns
find_path_for_name_returns ==
    /\ fpc = "call"
    /\ found' = find_path_in(dir, dir_ok, fname)
    /\ fpc' = "returned"
    /\ UNCHANGED <<dir, dir_ok, fname, text, canon>>
    /\ UNCHANGED <<chatVars, callVars, stateVars, readyVars, consoleVars, mainVars>>

NextResolver == find_path_for_name_returns

SpecResolver == InitResolver /\ [][NextResolver]_vars

\* The characters of the strings soundboard_sanitize is called on: the letters
\* it folds in both cases, the space, and letters it keeps.
Alphabet ==
    { "U''", "u''", "U:", "u:", "U'", "u'", "O:", "o:", "O''", "o''", "O'", "o'",
      "A'", "a'", "I'", "i'", "E'", "e'", " ", "A", "a", "z" }

\* A call of soundboard_sanitize on a string, then on what it returned.
InitSanitize ==
    /\ Boot
    /\ text \in SeqsUpTo(Alphabet, MaxLen)
    /\ canon = <<>> /\ fpc = "call"
    /\ dir = Listing /\ dir_ok = TRUE /\ fname = <<>> /\ found = NotFound

\* soundboard_sanitize(str) returns; the next call is given its result
soundboard_sanitize_returns ==
    /\ fpc = "call"
    /\ canon' = Append(canon, soundboard_sanitize(IF canon = <<>> THEN text
                                                   ELSE canon[Len(canon)]))
    /\ fpc' = IF canon = <<>> THEN "call" ELSE "returned"
    /\ UNCHANGED <<dir, dir_ok, fname, found, text>>
    /\ UNCHANGED <<chatVars, callVars, stateVars, readyVars, consoleVars, mainVars>>

NextSanitize == soundboard_sanitize_returns

SpecSanitize == InitSanitize /\ [][NextSanitize]_vars

\* ------------------------------------------------------------ properties
Playing(t) == out[t] = <<"Playing song 2">>

\* C1: in every reachable state, under any interleaving of join and leave
\* commands, the session table holds at most one handle for each room.
C1_OneHandlePerRoom ==
    \A g \in Guilds : Cardinality({c \in calls : c.guild = g}) <= 1

\* Two join commands for one room are in flight past the manager's lookup and
\* hold the same stored Call: the second join added no entry.
C1_Witness ==
    \E t, u \in Tasks :
        /\ t # u /\ cmd[t] = "join" /\ cmd[u] = "join" /\ guild[t] = guild[u]
        /\ pc[t] = "join_lock" /\ pc[u] = "join_lock"
        /\ fresh[t] /\ ~fresh[u]
        /\ hnd[t] = hnd[u] /\ InTable(hnd[t])

\* C3: a chat play that raced a leave ends as one of the two serial orders
\* does: "Playing ..." with the stream started on a Call that is in the
\* session table at that moment, or a failure reply and no stream started.
C3_PlayAsSerial ==
    \A t \in Tasks :
        (cmd[t] = "play" /\ pc[t] = "done") =>
            \/ Playing(t) /\ res[t] = "live"
            \/ ~Playing(t) /\ res[t] = "none"

\* C5: a join whose collaborator call failed for a room that had no handle
\* leaves no handle of its own in the session table.
C5_FailedJoinStoresNothing ==
    \A t \in Tasks :
        (cmd[t] = "join" /\ pc[t] = "done" /\ fresh[t] /\ res[t] = "err") =>
            ~InTable(hnd[t])

\* C7: a leave that finds no handle for its room when the removal is attempted
\* replies "Not in a voice channel" and nothing else.
C7_LeaveWithoutHandle ==
    \A t \in Tasks :
        (cmd[t] = "leave" /\ pc[t] = "done" /\ hnd[t] = NoCall) =>
            out[t] = <<"Not in a voice channel">>

\* C8: every chat command sends exactly one reply per invocation.
C8_OneReply ==
    \A t \in Tasks : pc[t] = "done" => Len(out[t]) = 1

\* The command that completed right before t was dispatched, with no other
\* command in flight since, was the same command on the same room and it acted
\* on a Call of the session table.
Repeated(t) == pc[t] = "done" /\ repeat[t]

\* C6: of two consecutive mute (deafen) commands on a room with a handle, the
\* second replies "Already muted" ("Already deafened") and does not invoke the
\* set operation; of two consecutive unmute (undeafen) commands, the second
\* invokes the clear operation again and replies "Unmuted" ("Undeafened").
C6_SetGuardedClearUnconditional ==
    \A t \in Tasks :
        Repeated(t) =>
            /\ cmd[t] = "mute" => out[t] = <<"Already muted">> /\ res[t] = "none"
            /\ cmd[t] = "deafen" => out[t] = <<"Already deafened">> /\ res[t] = "none"
            /\ cmd[t] = "unmute" =>
                   res[t] \in {"ok", "err"} /\ out[t][Len(out[t])] = "Unmuted"
            /\ cmd[t] = "undeafen" =>
                   res[t] \in {"ok", "err"} /\ out[t][Len(out[t])] = "Undeafened"

\* A second mute in a row has completed on a muted Call.
C6_Witness ==
    \E t \in Tasks :
        /\ Repeated(t) /\ cmd[t] = "mute"
        /\ hnd[t] # NoCall /\ self_mute[hnd[t]]
        /\ out[t] = <<"Already muted">>

\* C2: the console task never waits for the stream to open, or for a Call's
\* lock, while it holds the lock on the shared state.
C2_StateLockNotHeldAcrossAwait ==
    ~(stateLock = "console" /\ cpc \in {"ffmpeg", "call_lock"})

\* The line resolves to a file with a valid name that ffmpeg opens.
Opens(l) ==
    LET path == find_path_for_name(l)
    IN path # NotFound /\ Listing[path].utf8 /\ Listing[path].decodable

C9_ExitStopsConsole ==
    /\ [](afterExit = 0 /\ shutdowns <= 1 /\ (cpc = "done" => exits = 1 /\ shutdowns = 1))
    /\ [][cpc = "shutdown" /\ cpc' = "done" => UNCHANGED <<chatVars, callVars>>]_vars

\* The loop was left on "exit" while a chat command was in flight.
C9_Witness ==
    cpc = "done" /\ exits = 1 /\ shutdowns = 1 /\ \E t \in Tasks : ~Idle(t)

\* C10: once the console has read "exit", main eventually returns, with both
\* the chat listener and the console loop complete.
C10_ExitTerminates == (exits > 0) ~> (terminated /\ client = "stopped" /\ cpc = "done")

\* main has returned after an "exit".
C10_Witness == exits > 0 /\ terminated /\ client = "stopped" /\ cpc = "done"

\* The files of the sounds directory whose own canonical name starts with the
\* canonical form of l.
Matches(l) ==
    {i \in 1..Len(Listing) : ~Listing[i].is_dir /\ soundboard_compare(Listing[i].name, l)}

First(S) == CHOOSE i \in S : \A j \in S : i <= j

\* C11: for every console line other than "exit", if the canonical line is a
\* prefix of the canonical name of some file the console prints "Playing" with
\* the original name of the first such file, and if it is a prefix of no
\* file's canonical name the console prints "no matching file found" and no
\* stream is started.
C11_ConsolePrintsMatch ==
    cres # <<>> =>
        IF Matches(line) # {}
        THEN cres = <<"Playing", Listing[First(Matches(line))].name>>
        ELSE cres = <<"no matching file found">> /\ cplayed = "none"

\* The non-directory entries of dir whose own canonical name starts with the
\* canonical form of fname.
PrefixMatches ==
    {i \in 1..Len(dir) : ~dir[i].is_dir /\ soundboard_compare(dir[i].name, fname)}

\* C12: for every name and every directory that can be listed,
\* find_path_for_name returns the first non-directory entry in listing order
\* whose canonical name starts with the canonical name given, and NotFound
\* exactly when no non-directory entry has that prefix property: never a file
\* without it, never a subdirectory.
C12_ResolverFirstPrefixMatch ==
    (fpc = "returned" /\ dir_ok) =>
        IF PrefixMatches = {} THEN found = NotFound
        ELSE found = First(PrefixMatches)

\* C14: playback is single-slot: a play on a Call that already plays a stream
\* replaces that stream, so a Call never has more than one stream playing.
C14_SingleSlot ==
    \A h \in CallIds : tracks[h] <= 1

\* The console task has taken a step of find_active_voice_channel.
ScanMoved == cpc = "find_active" /\ (cpc' # cpc \/ ci' # ci)

\* C15: find_active_voice_channel scans state.guilds in its stored order, from
\* the first room, and the list does not change under the scan; it passes a
\* room only when the session table holds no handle for it, returns the handle
\* the table holds for the first room that has one, and returns "No active
\* voice channel found" exactly when it has passed every known room, whatever
\* handles the table holds for other rooms.
C15_ScanInStoredOrder ==
    /\ [](cpc \in {"process_input", "find_path", "ffmpeg"} => ci = 1)
    /\ [][cpc = "find_active" => guilds' = guilds]_vars
    /\ [][ScanMoved =>
            /\ cpc' = "call_lock" <=>
                   ctx # NoCtx /\ ci <= Len(guilds) /\ get(guilds[ci]) # NoCall
            /\ cpc' = "call_lock" => chnd' = get(guilds[ci]) /\ ci' = ci
            /\ cpc' = "find_active" <=>
                   ctx # NoCtx /\ ci <= Len(guilds) /\ get(guilds[ci]) = NoCall
            /\ cpc' = "find_active" => ci' = ci + 1
            /\ cres' = <<"No active voice channel found">> <=>
                   ctx # NoCtx /\ ci > Len(guilds)]_vars

\* The scan found nothing while the table held a handle, for a room that is
\* not in state.guilds.
C15_Witness ==
    /\ cres = <<"No active voice channel found">>
    /\ calls # {}
    /\ \A c \in calls : \A i \in 1..Len(guilds) : guilds[i] # c.guild

\* The console task is inside process_input, past state.lock().await.
InProcessInput == cpc \in {"find_path", "ffmpeg", "find_active", "call_lock", "play_source"}

\* C16: the ready event writes state.guilds and state.ctx under one hold of the
\* state lock, and the console reads the state only under that lock: while
\* the console is inside process_input no ready event is between its two
\* writes, so the console never sees the list of a ready event with the
\* context of before it, nor known rooms with an unset context.
C16_ReadyAtomic ==
    /\ rpc \in {"locked", "guilds_set"} => stateLock = "ready"
    /\ InProcessInput =>
           /\ stateLock = "console" /\ rpc \in {"idle", "waiting"}
           /\ ~(guilds # <<>> /\ ctx = NoCtx)

\* The first ready event has written the known rooms and not yet the context
\* while the console waits for the state lock.
C16_Witness ==
    /\ rpc = "guilds_set" /\ guilds # <<>> /\ ctx = NoCtx
    /\ cpc = "process_input" /\ stateLock = "ready"

\* Task t, running the chat play command, takes a step.
ChatPlayMoved(t) == cmd[t] = "play" /\ ~Idle(t) /\ pc'[t] # pc[t]

\* The console task takes a step of process_input.
ConsolePlayMoved == (cpc = "process_input" \/ InProcessInput) /\ cpc' # cpc

\* C17: no step of a play command, chat or console, changes the session
\* table, state.ctx, state.guilds or a Call's mute and deafen flags, or ends
\* the process; the only step that starts a stream is the one that ends the
\* command with "Playing ..."; and a console play that ends with an error
\* leaves the loop at its next read.
C17_FailedPlayFrame ==
    /\ [][\A t \in Tasks : ChatPlayMoved(t) =>
            /\ UNCHANGED <<calls, ctx, guilds, self_mute, self_deaf, terminated>>
            /\ tracks' # tracks => pc'[t] = "done" /\ out'[t] = <<"Playing song 2">>
            /\ pc'[t] = "done" /\ out'[t] # <<"Playing song 2">> => res'[t] = "none"]_vars
    /\ [][ConsolePlayMoved =>
            /\ UNCHANGED <<calls, ctx, guilds, self_mute, self_deaf, terminated>>
            /\ tracks' # tracks => cres' # <<>> /\ cres'[1] = "Playing"
            /\ cres' # <<>> /\ cres'[1] # "Playing" =>
                   cplayed' = "none" /\ cpc' = "read" /\ ~terminated']_vars

\* A console play has ended with "No active voice channel found" and a chat
\* play with "Not in a voice channel to play in"; the console is at its next
\* read.
C17_Witness ==
    /\ cres = <<"No active voice channel found">> /\ cpc = "read" /\ ~terminated
    /\ \E t \in Tasks :
          /\ cmd[t] = "play" /\ pc[t] = "done"
          /\ out[t] = <<"Not in a voice channel to play in">>

\* The task `who` holds the lock of Call h.
Holds(who, h) == h # NoCall /\ callLock[h] = who

\* C18: no set of tasks wait for each other's locks forever: every chat
\* command that waits for a Call's lock, the console when it waits for the
\* state lock and then for a Call's lock, and every ready handler that waits
\* for the state lock, eventually holds the lock it waits for.
C18_LocksAcquired ==
    /\ \A t \in Tasks :
          (pc[t] = "mute_lock") ~> Holds(ByTask(t), hnd[t])
    /\ (cpc = "process_input") ~> (stateLock = "console")
    /\ (cpc = "call_lock") ~> Holds(ByConsole, chnd)
    /\ (rpc = "waiting") ~> (stateLock = "ready")

\* The console holds the state lock and waits for the lock of a Call that a
\* chat command holds, while a second chat command waits for the same lock and
\* a ready handler waits for the state lock.
C18_Witness ==
    /\ cpc = "call_lock" /\ stateLock = "console" /\ rpc = "waiting"
    /\ \E t, u \in Tasks :
          /\ t # u /\ callLock[chnd] = ByTask(t)
          /\ pc[u] = "mute_lock" /\ hnd[u] = chnd

\* The tasks that run command c.
Running(c) == {t \in Tasks : cmd[t] = c}

\* Every command dispatched since InitJoined has a task of its own, so all of
\* them were in flight together, and all have completed without an error of
\* the collaborator.
AllConcurrentDone ==
    /\ Cardinality(Running("mute") \cup Running("deafen")) = dispatched - 1
    /\ \A t \in Running("mute") \cup Running("deafen") : pc[t] = "done" /\ res[t] # "err"

\* C19: mute (deafen) checks and sets the flag under one hold of the Call's
\* lock: of any number of concurrent mute commands on a room that starts
\* unmuted, with no unmute among them and no error of the collaborator,
\* exactly one replies "Now muted" and every other "Already muted"; the same
\* for deafen with "Deafened" and "Already deafened".
C19_OneSetsTheFlag ==
    /\ Cardinality({t \in Running("mute") : out[t] = <<"Now muted">>}) <= 1
    /\ Cardinality({t \in Running("deafen") : out[t] = <<"Deafened">>}) <= 1
    /\ AllConcurrentDone =>
          /\ Running("mute") # {} =>
                \E t \in Running("mute") :
                    /\ out[t] = <<"Now muted">>
                    /\ \A u \in Running("mute") \ {t} : out[u] = <<"Already muted">>
          /\ Running("deafen") # {} =>
                \E t \in Running("deafen") :
                    /\ out[t] = <<"Deafened">>
                    /\ \A u \in Running("deafen") \ {t} : out[u] = <<"Already deafened">>

\* Every task ran a mute at the same time as the others; the one dispatched
\* last took the lock first.
C19_Witness ==
    /\ AllConcurrentDone /\ Running("mute") = Tasks
    /\ out[NumTasks] = <<"Now muted">>
    /\ \A t \in Tasks \ {NumTasks} : out[t] = <<"Already muted">>

\* C20: the console loop is left only by the step that follows the reading of
\* a line that trims to "exit": not by a read error, an empty read, a failed
\* play or the chat listener ending on its own; and main returns only when
\* both the chat listener and the console loop have completed.
C20_OnlyExitLeavesLoop ==
    /\ [](cpc \in {"shutdown", "done"} => line = EXIT /\ exits = 1)
    /\ [](client = "stopped" /\ shutdowns = 0 => cpc # "done" /\ ~terminated)
    /\ [](terminated => client = "stopped" /\ cpc = "done")
    /\ [][cpc' = "done" /\ cpc # "done" => cpc = "shutdown"]_vars
    /\ [][cpc = "read" /\ cpc' # "read" => line' = EXIT \/ cpc' = "process_input"]_vars

\* The chat listener has ended on its own, the console has read the end of
\* input and the play of the empty line has failed: the loop is at its next
\* read.
C20_Witness ==
    /\ client = "stopped" /\ shutdowns = 0 /\ exits = 0
    /\ line = <<>> /\ cres # <<>> /\ cres[1] # "Playing"
    /\ cpc = "read" /\ ~terminated

\* C13: soundboard_sanitize is idempotent: called on its own result it
\* returns that result.
C13_SanitizeIdempotent ==
    Len(canon) = 2 => canon[2] = canon[1]

\* A string with an upper-case accented vowel and a space was canonicalized
\* to something else, and canonicalized again.
C13_Witness ==
    /\ Len(canon) = 2 /\ canon[1] # text
    /\ \E i, j \in 1..Len(text) : text[i] = "U''" /\ text[j] = " "

====
